---------------------------- MODULE Spec2Model ----------------------------
(***************************************************************************)
(* ProcessBase (process_base.h): the Lamport clock, the message buffer,    *)
(* the typed send / broadcast / receive wrappers and the multi-tag         *)
(* dispatcher of every process, over an MPI-like transport.                *)
(*                                                                         *)
(* The transport is the external collaborator: per (source, destination)   *)
(* it keeps the messages in flight in send order, a receive with filter    *)
(* (source, tag) takes the earliest message of that tag from one matching  *)
(* source, and a probe followed by the receive of the same call see the    *)
(* same message.  A blocking call is an action that is enabled once the    *)
(* transport can serve it.                                                 *)
(*                                                                         *)
(* Fields id and sclk of a message, field wire of a buffer entry and the   *)
(* variables nextId, scopeCalls and delivered are history: the code does   *)
(* not read them.  delivered[id] is what the caller got for message id.    *)
(* pending is the position of the caller of a blocking call, and history   *)
(* the log of the events of a run with their vector times; only the        *)
(* specifications that need them let them change.                          *)
(***************************************************************************)
EXTENDS Integers, Sequences, FiniteSets, TLC

\* ------------------------------------------------------------ bounds
NumProcs == 3
MaxClock == 3
MaxMsgs == 2
MaxBatch == 2
MaxScope == 3
MaxScopeCalls == 1

\* ------------------------------------------------- program constants
any_source == -1
undefined == -2

Ranks == 0 .. (NumProcs - 1)
\* the messages of a run are numbered 1 .. MaxIds in the order they are
\* handed to the transport; a specification allows MaxMsgs of them, or
\* one more
MaxIds == MaxMsgs + 1
Ids == 1 .. MaxIds
SourceFilters == Ranks \cup {any_source}
\* the shape a tag carries is fixed by the algorithm layer: single
\* messages on SingleTags, batches on VectorTags
SingleTags == {1, 2}
VectorTags == {3}
\* sizeof(T), in units of the size of the element type the senders use on
\* VectorTags, of the element types a receiveVector<T> may name
ElemSizes == {1, 2}

max(a, b) == IF a >= b THEN a ELSE b

RECURSIVE SeqsUpTo(_, _)
SeqsUpTo(S, n) ==
  IF n = 0 THEN {<<>>}
  ELSE LET shorter == SeqsUpTo(S, n - 1)
       IN  shorter \cup {Append(s, x) : s \in {t \in shorter : Len(t) = n - 1}, x \in S}

RemoveAt(q, i) == [j \in 1 .. (Len(q) - 1) |-> IF j < i THEN q[j] ELSE q[j + 1]]

\* T message{}: a default-constructed message
DefaultMessage == [ts |-> 0, val |-> 0]
\* a message as the caller hands it to send: a stale timestamp, and a
\* payload that tells the k-th message handed to the transport from any other
StaleTimestamps == {0, MaxClock}
InputMessage(t, k) == [ts |-> t, val |-> 10 * k]
InputBatch(t, k, n) == [i \in 1 .. n |-> [ts |-> t, val |-> 10 * k + i]]
\* the scopes setBroadcastScope is given: every sequence of ranks up to
\* MaxScope entries (SpecScope), or every rank in order (Spec)
Scopes == SeqsUpTo(Ranks, MaxScope)
AllRanks == [i \in 1 .. NumProcs |-> i - 1]
DestVectors == {<<>>, <<DefaultMessage>>}

VARIABLES lamportClock, broadcastScope, messageBuffer, transport, call,
          nextId, scopeCalls, delivered, pending, history

vars == <<lamportClock, broadcastScope, messageBuffer, transport, call,
          nextId, scopeCalls, delivered, pending, history>>

\* pending[r]: the blocking call the caller of rank r is in, if any
NoCall == [op |-> "none"]

\* history: the events so far, each with the clock it left and its vector
\* time; the vector time of each rank and of the send of each message
NoHistory ==
  [log |-> {}, vc |-> [r \in Ranks |-> [q \in Ranks |-> 0]],
   sent |-> [i \in Ids |-> [q \in Ranks |-> 0]]]

\* call[r]: whether rank r runs or has exited
Idle == [op |-> "idle"]
\* after exit(EXIT_FAILURE): the count the probe reported and the caller's
\* vector as given and as left
Exited == [op |-> "exited", count |-> 0, given |-> <<>>, message |-> <<>>]

NoStatus == [source |-> any_source, tag |-> 0]
NotDelivered == [n |-> 0, path |-> "none", rank |-> any_source, message |-> <<>>,
                 status |-> NoStatus]

\* ------------------------------------------------------ logical clock

\* void setTimestamp(MessageBase&) const: writes the current clock value
setTimestamp(message, clock) == [message EXCEPT !.ts = clock]

\* int getTimestamp(const MessageBase&) const
getTimestamp(message) == message.ts

\* variant: the update runs twice for one message
observeTwice(clock, timestamp) == max(max(clock, timestamp) + 1, timestamp) + 1

\* variant: lamportClock = timestamp + 1
observeTimestamp(clock, timestamp) == timestamp + 1

\* variant: the clock ticks without looking at the timestamp
observeNoMax(clock, timestamp) == clock + 1

\* variant: the clock jumps to the larger value and does not tick
observeNoTick(clock, timestamp) == max(clock, timestamp)

\* lamportClock = std::max(lamportClock, timestamp) + 1
observe(clock, timestamp) == max(clock, timestamp) + 1

\* variant: setTimestamp(message); lamportClock++
stampThenTick(clock) == [clock |-> clock + 1, ts |-> clock]

\* variant: lamportClock++ without setTimestamp: the message keeps the
\* timestamp of a default-constructed message
stampNone(clock) == [clock |-> clock + 1, ts |-> 0]

\* lamportClock++; setTimestamp(message): the clock after the event and
\* the clock value the stamp reads
stamp(clock) == [clock |-> clock + 1, ts |-> clock + 1]

\* variant: setTimestamp(message[0])
stampFirst(batch, clock) ==
  [i \in DOMAIN batch |-> IF i = 1 THEN setTimestamp(batch[i], clock) ELSE batch[i]]

\* for (i < message.size()) setTimestamp(message[i])
stampVector(batch, clock) == [i \in DOMAIN batch |-> setTimestamp(batch[i], clock)]

Init ==
  /\ lamportClock = [r \in Ranks |-> 0]
  /\ broadcastScope = [r \in Ranks |-> <<>>]
  /\ messageBuffer = [r \in Ranks |-> <<>>]
  /\ transport = [c \in Ranks \X Ranks |-> <<>>]
  /\ call = [r \in Ranks |-> Idle]
  /\ nextId = 1
  /\ scopeCalls = 0
  /\ delivered = [i \in Ids |-> NotDelivered]
  /\ pending = [r \in Ranks |-> NoCall]
  /\ history = NoHistory

Running(r) == call[r].op = "idle"

\* int advanceClock(): increments the clock, returns the new value
advanceClock(r) ==
  /\ Running(r)
  /\ lamportClock[r] < MaxClock
  /\ lamportClock' = [lamportClock EXCEPT ![r] = @ + 1]
  /\ UNCHANGED <<broadcastScope, messageBuffer, transport, call, nextId, scopeCalls, delivered>>

\* void setBroadcastScope(std::vector<int> recipientRanks)
setBroadcastScope(r, recipientRanks) ==
  /\ Running(r)
  /\ scopeCalls < MaxScopeCalls
  /\ scopeCalls' = scopeCalls + 1
  /\ broadcastScope' = [broadcastScope EXCEPT ![r] = recipientRanks]
  /\ UNCHANGED <<lamportClock, messageBuffer, transport, call, nextId, delivered>>

\* ---------------------------------------------------------- transport

\* communicator.send: the message joins the channel to its recipient
RECURSIVE handOver(_, _)
handOver(tr, msgs) ==
  IF msgs = <<>> THEN tr
  ELSE LET m == Head(msgs)
       IN  handOver([tr EXCEPT ![<<m.src, m.dst>>] = Append(@, m)], Tail(msgs))

\* the message one communicator.send call of rank r puts on the wire
Wire(id, r, recipientRank, tag, elems, sclk) ==
  [id |-> id, src |-> r, dst |-> recipientRank, tag |-> tag,
   elems |-> elems, sclk |-> sclk]

\* variant: for (recipientRank : broadcastScope) communicator.send(...)
broadcastLoopAll(scope, rank, i) == scope

\* for (recipientRank : broadcastScope) { if (recipientRank == rank)
\* continue; communicator.send(...) }: the ranks sent to, in order
RECURSIVE broadcastLoop(_, _, _)
broadcastLoop(scope, rank, i) ==
  IF i > Len(scope) THEN <<>>
  ELSE IF scope[i] = rank THEN broadcastLoop(scope, rank, i + 1)
  ELSE <<scope[i]>> \o broadcastLoop(scope, rank, i + 1)

\* the effect of a send event of rank r: elems (already stamped) go to
\* each of recipients, the clock becomes clock
sendEvent(r, clock, recipients, tag, elems) ==
  LET msgs == [k \in 1 .. Len(recipients) |->
                 Wire(nextId + k - 1, r, recipients[k], tag, elems, clock)]
  IN  /\ Running(r)
      /\ clock <= MaxClock
      /\ nextId + Len(recipients) - 1 <= MaxIds
      /\ lamportClock' = [lamportClock EXCEPT ![r] = clock]
      /\ transport' = handOver(transport, msgs)
      /\ nextId' = nextId + Len(recipients)
      /\ UNCHANGED <<broadcastScope, messageBuffer, call, scopeCalls, delivered>>

\* template <T> void send(T& message, int recipientRank, mpl::tag tag)
send(r, message, recipientRank, tag) ==
  LET s == stamp(lamportClock[r])
  IN  sendEvent(r, s.clock, <<recipientRank>>, tag, <<setTimestamp(message, s.ts)>>)

\* template <T> void broadcast(T& message, mpl::tag tag)
broadcast(r, message, tag) ==
  LET s == stamp(lamportClock[r])
  IN  sendEvent(r, s.clock, broadcastLoop(broadcastScope[r], r, 1), tag,
                <<setTimestamp(message, s.ts)>>)

\* template <T> void sendVector(std::vector<T>& message, int recipientRank, mpl::tag tag)
sendVector(r, message, recipientRank, tag) ==
  LET s == stamp(lamportClock[r])
  IN  sendEvent(r, s.clock, <<recipientRank>>, tag, stampVector(message, s.ts))

\* template <T> void broadcastVector(std::vector<T>& message, mpl::tag tag)
broadcastVector(r, message, tag) ==
  LET s == stamp(lamportClock[r])
  IN  sendEvent(r, s.clock, broadcastLoop(broadcastScope[r], r, 1), tag,
                stampVector(message, s.ts))

\* the earliest message in channel q that a receive for tags can take
RECURSIVE firstTagged(_, _, _)
firstTagged(q, tags, i) ==
  IF i > Len(q) THEN 0
  ELSE IF q[i].tag \in tags THEN i
  ELSE firstTagged(q, tags, i + 1)

\* the sources a blocking communicator.recv / probe of rank r with filter
\* (sourceRank, tags) can be served from
Serving(r, sourceRank, tags) ==
  {s \in Ranks : /\ sourceRank \in {any_source, s}
                 /\ firstTagged(transport[<<s, r>>], tags, 1) # 0}

\* the messages a call for (sourceRank, tag) of rank r can get from the
\* transport: the earliest of that tag from each source the filter admits
available(r, sourceRank, tag) ==
  {transport[<<s, r>>][firstTagged(transport[<<s, r>>], {tag}, 1)] :
     s \in Serving(r, sourceRank, {tag})}

\* variant: a receive that returns at once, with the destination as it
\* was, when the transport has no message for it
recvNoWait(r, sourceRank, tag) ==
  IF available(r, sourceRank, tag) # {} THEN available(r, sourceRank, tag)
  ELSE {[id |-> 0, src |-> r, dst |-> r, tag |-> tag, elems |-> <<DefaultMessage>>,
         sclk |-> 0]}

\* communicator.recv(message, sourceRank, tag): the messages the call can
\* return; while there is none the call blocks
recv(r, sourceRank, tag) == available(r, sourceRank, tag)

\* variant: communicator.iprobe(sourceRank, tag): returns at once, with a
\* status that counts no element when the transport has no message for it
iprobe(r, sourceRank, tag) ==
  IF available(r, sourceRank, tag) # {} THEN available(r, sourceRank, tag)
  ELSE {[id |-> 0, src |-> r, dst |-> r, tag |-> tag, elems |-> <<>>, sclk |-> 0]}

\* communicator.probe(sourceRank, tag): the messages whose status the call
\* can return; while there is none the call blocks
probe(r, sourceRank, tag) == available(r, sourceRank, tag)

\* variant: a default mpl::status
statusBlank(m) == NoStatus

\* mpl::status of a message taken from the transport
statusOf(m) == [source |-> m.src, tag |-> m.tag]

\* what the caller of a receive operation got for a message
Delivery(was, path, r, message, status) ==
  [n |-> was.n + 1, path |-> path, rank |-> r, message |-> message, status |-> status]

\* ------------------------------------------------------ message buffer

\* void storeInBuffer(const MessageBase*, const mpl::status&): appends
storeInBuffer(buffer, message, status, wire) ==
  Append(buffer, [message |-> message, status |-> status, wire |-> wire])

\* const MessageBase* fetchFromBuffer(mpl::status&, int sourceRank, tags):
\* the place of the first entry, in insertion order, whose source matches
\* the filter and whose tag is one of tags; 0 for nullptr
RECURSIVE fetchFromBuffer(_, _, _, _)
fetchFromBuffer(buffer, sourceRank, tags, i) ==
  IF i > Len(buffer) THEN 0
  ELSE IF /\ sourceRank \in {any_source, buffer[i].status.source}
          /\ buffer[i].status.tag \in tags
       THEN i
  ELSE fetchFromBuffer(buffer, sourceRank, tags, i + 1)

\* variant: new T(): a fresh message instead of a copy
bufferedBlank(message) == DefaultMessage

\* new T(message): the copy the dispatcher puts in the buffer
bufferedCopy(message) == message

\* ------------------------------------------------------------ receive

\* variant: no fetchFromBuffer, bufferedMessage = nullptr
receiveFetchNone(buffer, sourceRank, tag) == 0

\* variant: fetchFromBuffer(status, mpl::any_source, std::vector<mpl::tag>{tag})
receiveFetchAny(buffer, sourceRank, tag) == fetchFromBuffer(buffer, any_source, {tag}, 1)

\* fetchFromBuffer(status, sourceRank, std::vector<mpl::tag>{tag})
receiveFetch(buffer, sourceRank, tag) == fetchFromBuffer(buffer, sourceRank, {tag}, 1)

\* template <T> mpl::status receive(T& message, int sourceRank, mpl::tag tag):
\* the message comes from the buffer, else from communicator.recv, which
\* blocks until the transport has one; then the clock observes it
receive(r, sourceRank, tag) ==
  LET i == receiveFetch(messageBuffer[r], sourceRank, tag)
      entry == messageBuffer[r][i]
  IN  /\ Running(r)
      /\ IF i # 0
         THEN LET message == entry.message
                  clock == observe(lamportClock[r], getTimestamp(message))
              IN  /\ clock <= MaxClock
                  /\ messageBuffer' = [messageBuffer EXCEPT ![r] = RemoveAt(@, i)]
                  /\ lamportClock' = [lamportClock EXCEPT ![r] = clock]
                  /\ delivered' = [delivered EXCEPT ![entry.wire.id] =
                        Delivery(@, "buffer", r, <<message>>, entry.status)]
                  /\ UNCHANGED transport
         ELSE \E m \in recv(r, sourceRank, tag) :
                LET s == m.src
                    k == firstTagged(transport[<<s, r>>], {tag}, 1)
                    message == m.elems[1]
                    clock == observe(lamportClock[r], getTimestamp(message))
                IN  /\ clock <= MaxClock
                    /\ transport' = [transport EXCEPT ![<<s, r>>] = RemoveAt(@, k)]
                    /\ lamportClock' = [lamportClock EXCEPT ![r] = clock]
                    /\ delivered' = [delivered EXCEPT ![m.id] =
                          Delivery(@, "transport", r, <<message>>, statusOf(m))]
                    /\ UNCHANGED messageBuffer
      /\ UNCHANGED <<broadcastScope, call, nextId, scopeCalls>>

\* template <T> mpl::status receiveAny(T& message, mpl::tag tag)
receiveAny(r, tag) == receive(r, any_source, tag)

\* ------------------------------------------------------ receiveVector

\* probe.get_count<T>(): the number of elements of size tsize in the
\* message, mpl::undefined when it holds no whole number of them (the
\* senders' elements have size 1)
get_count(m, tsize) ==
  IF Len(m.elems) % tsize = 0 THEN Len(m.elems) \div tsize ELSE undefined

\* variant: (size != 0)
probeNonZero(size) == size # 0

\* variant: (size < 0)
probeNegative(size) == size < 0

\* variant: (size == mpl::undefined)
probeUndefined(size) == size = undefined

\* (size == mpl::undefined) || (size == 0)
probeFatal(size) == size = undefined \/ size = 0

\* message.resize(size)
resize(message, size) ==
  [i \in 1 .. size |-> IF i <= Len(message) THEN message[i] ELSE DefaultMessage]

\* template <T> mpl::status receiveVector(std::vector<T>& message, int
\* sourceRank, mpl::tag tag): communicator.probe blocks until the transport
\* has a message; exit(EXIT_FAILURE) on an undefined or zero count, else
\* resize, communicator.recv and observe message[0].  tsize is sizeof(T).
\* A count that is defined for a T other than the senders' is a type
\* mismatch the transport does not allow, and is left out.
receiveVector(r, tsize, message, sourceRank, tag) ==
  /\ Running(r)
  /\ \E m \in probe(r, sourceRank, tag) :
       LET s == m.src
           k == firstTagged(transport[<<s, r>>], {tag}, 1)
           size == get_count(m, tsize)
           resized == resize(message, size)
           received == [j \in 1 .. size |-> IF j <= Len(m.elems) THEN m.elems[j] ELSE resized[j]]
           timestamp == IF size > 0 THEN getTimestamp(received[1]) ELSE 0
           clock == observe(lamportClock[r], timestamp)
       IN  IF probeFatal(size)
           THEN /\ call' = [call EXCEPT ![r] = [Exited EXCEPT !.count = size,
                                                  !.given = message, !.message = message]]
                /\ UNCHANGED <<transport, lamportClock, delivered>>
           ELSE /\ tsize = 1
                /\ clock <= MaxClock
                /\ transport' = [transport EXCEPT ![<<s, r>>] = RemoveAt(@, k)]
                /\ lamportClock' = [lamportClock EXCEPT ![r] = clock]
                /\ delivered' = [delivered EXCEPT ![m.id] =
                      Delivery(@, "vector", r, received, statusOf(m))]
                /\ UNCHANGED call
  /\ UNCHANGED <<broadcastScope, messageBuffer, nextId, scopeCalls>>

\* template <T> mpl::status receiveVectorAny(std::vector<T>& message, mpl::tag tag)
receiveVectorAny(r, tsize, message, tag) == receiveVector(r, tsize, message, any_source, tag)

\* --------------------------------------------------------- dispatcher

\* variant: messageHandlers.find((int)status.tag()) == messageHandlers.end()
noHandler(messageHandlers, status) == status.tag \notin messageHandlers

\* messageHandlers.find((int)status.tag()) != messageHandlers.end()
hasHandler(messageHandlers, status) == status.tag \in messageHandlers

\* variant: messageHandlers[tag](&message, status) without the return: the
\* message goes on to storeInBuffer
handledAndStored(buffer, message, status, wire) ==
  storeInBuffer(buffer, message, status, wire)

\* messageHandlers[tag](&message, status); return true: the buffer after a
\* message went to its handler
handled(buffer, message, status, wire) == buffer

\* template <T> const bool receiveMultiTagHandle(int sourceRank, mpl::tag
\* tag, messageHandlers): communicator.recv, then the message goes to its
\* handler, or to the buffer.  messageHandlers is the set of tags with a
\* handler.
receiveMultiTagHandle(r, sourceRank, tag, messageHandlers) ==
  /\ Running(r)
  /\ \E s \in Serving(r, sourceRank, {tag}) :
       LET k == firstTagged(transport[<<s, r>>], {tag}, 1)
           m == transport[<<s, r>>][k]
           message == m.elems[1]
           status == statusOf(m)
           clock == observe(lamportClock[r], getTimestamp(message))
       IN  /\ transport' = [transport EXCEPT ![<<s, r>>] = RemoveAt(@, k)]
           /\ IF hasHandler(messageHandlers, status)
              THEN /\ clock <= MaxClock
                   /\ lamportClock' = [lamportClock EXCEPT ![r] = clock]
                   /\ delivered' = [delivered EXCEPT ![m.id] =
                         Delivery(@, "handler", r, <<message>>, status)]
                   /\ messageBuffer' = [messageBuffer EXCEPT ![r] =
                         handled(@, bufferedCopy(message), status, m)]
              ELSE /\ messageBuffer' = [messageBuffer EXCEPT ![r] =
                         storeInBuffer(@, bufferedCopy(message), status, m)]
                   /\ UNCHANGED <<lamportClock, delivered>>
  /\ UNCHANGED <<broadcastScope, call, nextId, scopeCalls>>

\* the tags of the messages a probe of rank r for sourceRank, on any tag
\* whose shape is known, can report
nextTags(r, sourceRank) ==
  {transport[<<s, r>>][firstTagged(transport[<<s, r>>], SingleTags, 1)].tag :
     s \in Serving(r, sourceRank, SingleTags)}

\* void receiveMultiTag(int sourceRank, messageHandlers): the next message
\* from sourceRank, whatever its tag, goes through receiveMultiTagHandle
receiveMultiTag(r, sourceRank, messageHandlers) ==
  \E tag \in nextTags(r, sourceRank) :
    receiveMultiTagHandle(r, sourceRank, tag, messageHandlers)

\* ------------------------------------------------------ specifications

\* the ranks that run every operation; the remaining rank only sends (Spec)
\* or runs nothing (SpecAll)
Full == {0, 1}

\* a step that is no call of a caller waiting in a blocking call, and
\* that the history does not record
Plain == UNCHANGED <<pending, history>>

\* there is room for n more messages in a run of at most limit
Room(n, limit) == nextId + n - 1 <= limit
ScopeRoom(r, limit) == Room(Len(broadcastLoop(broadcastScope[r], r, 1)), limit)

\* single-message traffic between three ranks
Next ==
  \/ \E r \in Full : advanceClock(r) /\ Plain
  \/ \E r \in Full : setBroadcastScope(r, AllRanks) /\ Plain
  \/ \E r \in Ranks : \E t \in StaleTimestamps, d \in Full \ {r}, tag \in SingleTags :
       Room(1, MaxMsgs) /\ send(r, InputMessage(t, nextId), d, tag) /\ Plain
  \/ \E r \in Full, t \in StaleTimestamps, tag \in SingleTags :
       ScopeRoom(r, MaxMsgs) /\ broadcast(r, InputMessage(t, nextId), tag) /\ Plain
  \/ \E r \in Full : \E s \in Ranks \ {r}, tag \in SingleTags : receive(r, s, tag) /\ Plain
  \/ \E r \in Full, tag \in SingleTags : receiveAny(r, tag) /\ Plain
  \/ \E r \in Full : \E s \in SourceFilters \ {r}, h \in SUBSET SingleTags :
       receiveMultiTag(r, s, h) /\ Plain

Spec == Init /\ [][Next]_vars

\* every operation, single messages and batches, between two ranks
NextAll ==
  \/ \E r \in Full : advanceClock(r) /\ Plain
  \/ \E r \in Full : setBroadcastScope(r, AllRanks) /\ Plain
  \/ \E r \in Full : \E t \in StaleTimestamps, d \in Full \ {r}, tag \in SingleTags :
       Room(1, MaxMsgs) /\ send(r, InputMessage(t, nextId), d, tag) /\ Plain
  \/ \E r \in Full, t \in StaleTimestamps, tag \in SingleTags :
       ScopeRoom(r, MaxMsgs) /\ broadcast(r, InputMessage(t, nextId), tag) /\ Plain
  \/ \E r \in Full : \E t \in StaleTimestamps, n \in 0 .. MaxBatch, d \in Full \ {r},
        tag \in VectorTags :
       Room(1, MaxMsgs) /\ sendVector(r, InputBatch(t, nextId, n), d, tag) /\ Plain
  \/ \E r \in Full, t \in StaleTimestamps, n \in 0 .. MaxBatch, tag \in VectorTags :
       ScopeRoom(r, MaxMsgs) /\ broadcastVector(r, InputBatch(t, nextId, n), tag) /\ Plain
  \/ \E r \in Full : \E s \in Full \ {r}, tag \in SingleTags : receive(r, s, tag) /\ Plain
  \/ \E r \in Full, tag \in SingleTags : receiveAny(r, tag) /\ Plain
  \/ \E r \in Full : \E z \in ElemSizes, v \in DestVectors, s \in Full \ {r}, tag \in VectorTags :
       receiveVector(r, z, v, s, tag) /\ Plain
  \/ \E r \in Full, z \in ElemSizes, v \in DestVectors, tag \in VectorTags :
       receiveVectorAny(r, z, v, tag) /\ Plain
  \/ \E r \in Full : \E s \in SourceFilters \ {r}, h \in SUBSET SingleTags :
       receiveMultiTag(r, s, h) /\ Plain

SpecAll == Init /\ [][NextAll]_vars

\* the sending side alone, with every broadcast scope; the timestamp a
\* message comes with is overwritten, so one value is enough here
NextScope ==
  \/ \E r \in Ranks, scope \in Scopes : setBroadcastScope(r, scope) /\ Plain
  \/ \E r \in Ranks, tag \in SingleTags :
       ScopeRoom(r, MaxIds) /\ broadcast(r, InputMessage(MaxClock, nextId), tag) /\ Plain
  \/ \E r \in Ranks, tag \in VectorTags :
       ScopeRoom(r, MaxIds) /\ broadcastVector(r, InputBatch(MaxClock, nextId, MaxBatch), tag) /\ Plain

SpecScope == Init /\ [][NextScope]_vars

\* the receiving side of one rank: the other ranks send, rank 0 drains the
\* transport through the dispatcher and through typed receives
NextBuffer ==
  \/ \E r \in Ranks \ {0} : \E t \in StaleTimestamps, tag \in SingleTags :
       Room(1, MaxIds) /\ send(r, InputMessage(t, nextId), 0, tag) /\ Plain
  \/ \E s \in Ranks \ {0}, tag \in SingleTags : receive(0, s, tag) /\ Plain
  \/ \E tag \in SingleTags : receiveAny(0, tag) /\ Plain
  \/ \E s \in SourceFilters \ {0}, h \in SUBSET SingleTags : receiveMultiTag(0, s, h) /\ Plain

SpecBuffer == Init /\ [][NextBuffer]_vars

\* ------------------------------------------------- blocking callers

\* the blocking calls a caller can be in
ReceiveCall(sourceRank, tag) == [op |-> "receive", source |-> sourceRank, tag |-> tag]
VectorCall(tsize, message, sourceRank, tag) ==
  [op |-> "receiveVector", source |-> sourceRank, tag |-> tag, tsize |-> tsize,
   message |-> message]

Free(r) == pending[r] = NoCall

\* the caller of rank r calls a blocking operation
enter(r, c) ==
  /\ Free(r)
  /\ Running(r)
  /\ pending' = [pending EXCEPT ![r] = c]
  /\ UNCHANGED <<lamportClock, broadcastScope, messageBuffer, transport, call,
                 nextId, scopeCalls, delivered, history>>

\* the receive / receiveAny that the caller of rank r is in returns
returnReceive(r) ==
  LET c == pending[r]
  IN  /\ c.op = "receive"
      /\ IF c.source = any_source THEN receiveAny(r, c.tag)
         ELSE receive(r, c.source, c.tag)
      /\ pending' = [pending EXCEPT ![r] = NoCall]
      /\ UNCHANGED history

\* the receiveVector / receiveVectorAny that the caller of rank r is in
\* returns, or ends the process
returnReceiveVector(r) ==
  LET c == pending[r]
  IN  /\ c.op = "receiveVector"
      /\ IF c.source = any_source THEN receiveVectorAny(r, c.tsize, c.message, c.tag)
         ELSE receiveVector(r, c.tsize, c.message, c.source, c.tag)
      /\ pending' = [pending EXCEPT ![r] = NoCall]
      /\ UNCHANGED history

\* rank 0 receives through calls it waits in, the other ranks send to it
NextBlock ==
  \/ \E s \in SourceFilters \ {0}, tag \in SingleTags : enter(0, ReceiveCall(s, tag))
  \/ \E z \in ElemSizes, v \in DestVectors, s \in SourceFilters \ {0}, tag \in VectorTags :
       enter(0, VectorCall(z, v, s, tag))
  \/ returnReceive(0)
  \/ returnReceiveVector(0)
  \/ \E s \in SourceFilters \ {0}, h \in SUBSET SingleTags :
       Free(0) /\ receiveMultiTag(0, s, h) /\ Plain
  \/ \E r \in Ranks \ {0} : \E t \in StaleTimestamps, tag \in SingleTags :
       Room(1, MaxMsgs) /\ send(r, InputMessage(t, nextId), 0, tag) /\ Plain
  \/ \E r \in Ranks \ {0} : \E t \in StaleTimestamps, n \in 0 .. MaxBatch, tag \in VectorTags :
       Room(1, MaxMsgs) /\ sendVector(r, InputBatch(t, nextId, n), 0, tag) /\ Plain

SpecBlock == Init /\ [][NextBlock]_vars

\* ------------------------------------------------------------- claims

\* the messages in flight, those held in buffers, and both as sent
InFlight == UNION {{transport[c][i] : i \in DOMAIN transport[c]} : c \in Ranks \X Ranks}
Buffered == UNION {{messageBuffer[r][i].wire : i \in DOMAIN messageBuffer[r]} : r \in Ranks}
WireOf(id) == CHOOSE w \in InFlight \cup Buffered : w.id = id
\* the messages a step hands to the transport, and those it delivers
HandedOver == {m \in InFlight' : m.id >= nextId}
DeliveredNow == {id \in Ids : delivered'[id].n > delivered[id].n}

\* ------------------------------------------------------ causal history

\* the rank whose event a step is: its clock changed, it handed messages
\* to the transport, or its caller or a handler of it was given a message
Movers ==
  {r \in Ranks : lamportClock'[r] # lamportClock[r]}
    \cup {m.src : m \in HandedOver}
    \cup {delivered'[id].rank : id \in DeliveredNow}

Greatest(S) == CHOOSE x \in S : \A y \in S : y <= x

\* the history after a step.  An event of rank r gets as vector time the
\* componentwise greatest of the vector time of r's previous event and of
\* the send of the message it was given, with one more at r: event A
\* happens before event B, through program order and send-to-receive
\* links, exactly when A's vector time is below B's.  A step that is no
\* event (a message moved to the buffer, setBroadcastScope, the exit)
\* leaves the history as it is.
Recorded ==
  IF Movers = {} THEN history
  ELSE LET r == CHOOSE q \in Movers : TRUE
           got == {history.sent[id] : id \in DeliveredNow}
           now == [q \in Ranks |->
                     Greatest({history.vc[r][q]} \cup {v[q] : v \in got})
                       + (IF q = r THEN 1 ELSE 0)]
       IN  [log |-> history.log \cup
                      {[rank |-> r, clock |-> lamportClock'[r], at |-> now]},
            vc |-> [history.vc EXCEPT ![r] = now],
            sent |-> [i \in Ids |->
                        IF i \in {m.id : m \in HandedOver} THEN now
                        ELSE history.sent[i]]]

\* a step of a specification that keeps the history
Logged == history' = Recorded /\ UNCHANGED pending

\* local advances, sends, broadcasts, typed receives and the dispatcher
\* on one tag, with the history of their events: rank 2 sends to rank 1,
\* rank 1 sends to rank 0 and broadcasts, ranks 0 and 1 receive
NextCausal ==
  \/ \E r \in Ranks : advanceClock(r) /\ Logged
  \/ setBroadcastScope(1, AllRanks) /\ Logged
  \/ \E r \in Ranks \ {0} :
       Room(1, MaxMsgs) /\ send(r, InputMessage(0, nextId), r - 1, 1) /\ Logged
  \/ ScopeRoom(1, MaxMsgs) /\ broadcast(1, InputMessage(0, nextId), 1) /\ Logged
  \/ \E r \in Full : \E s \in Ranks \ {r} : receive(r, s, 1) /\ Logged
  \/ \E r \in Ranks : receiveAny(r, 1) /\ Logged
  \/ \E h \in SUBSET {1} : receiveMultiTag(0, any_source, h) /\ Logged

SpecCausal == Init /\ [][NextCausal]_vars

\* C1: every event raises the clock of its process: a step that hands
\* messages to the transport, and any other step that is not a delivery
\* and moves the clock, raises it by exactly 1; a delivery (receive,
\* receiveAny, receiveVector, handler) sets it to max(clock, incoming
\* timestamp) + 1; no step lowers a clock.
C1_ClockRule ==
  [][\A r \in Ranks :
       LET got == {id \in DeliveredNow : WireOf(id).dst = r}
       IN  /\ lamportClock'[r] >= lamportClock[r]
           /\ (\E m \in HandedOver : m.src = r) => lamportClock'[r] = lamportClock[r] + 1
           /\ \A id \in got :
                /\ lamportClock'[r] =
                     max(lamportClock[r], WireOf(id).elems[1].ts) + 1
                /\ lamportClock'[r] > lamportClock[r]
           /\ (got = {} /\ lamportClock'[r] # lamportClock[r]) =>
                lamportClock'[r] = lamportClock[r] + 1]_vars

\* C1 witness: a rank received a message whose timestamp was ahead of its
\* clock, and another message whose timestamp was behind
C1_Witness ==
  \E i, j \in Ids :
    /\ delivered[i].n = 1 /\ delivered[j].n = 1 /\ i # j
    /\ delivered[i].path = "vector" /\ delivered[j].path = "handler"
    /\ delivered[i].message[1].ts = 2 /\ lamportClock[delivered[i].rank] = 3
    /\ delivered[j].message[1].ts = 1 /\ lamportClock[delivered[j].rank] = 3

\* C2: the clock of the receiver right after the delivery of a message
\* (from the transport, from the buffer, to a handler) is greater than
\* the clock of the sender at the send event of that message
C2_ReceiveAfterSend ==
  [][\A id \in DeliveredNow :
       lamportClock'[delivered'[id].rank] > WireOf(id).sclk]_vars

\* C2 witness: a message sent at clock 2 reached a handler of a rank
\* whose clock is now 3, another came out of the buffer
C2_Witness ==
  \E i, j \in Ids :
    /\ delivered[i].path = "handler" /\ delivered[i].message[1].ts = 2
    /\ lamportClock[delivered[i].rank] = 3
    /\ delivered[j].path = "buffer"

\* C3 as stated: the timestamp of a message handed to the transport is the
\* clock of the sender before the event (the clock after it, minus one)
C3_StampBeforeIncrement ==
  [][\A m \in HandedOver : \A i \in DOMAIN m.elems :
       /\ m.elems[i].ts = lamportClock[m.src]
       /\ m.elems[i].ts = lamportClock'[m.src] - 1]_vars

\* C3 amended: the timestamp of a message handed to the transport by send,
\* broadcast, sendVector and broadcastVector is the clock of the sender
\* after the increment of that event (increment first, then stamp)
C3_StampAfterIncrement ==
  [][\A m \in HandedOver : \A i \in DOMAIN m.elems :
       /\ m.elems[i].ts = lamportClock'[m.src]
       /\ m.elems[i].ts = lamportClock[m.src] + 1]_vars

\* C3 witness: a batch of two and a single message are in flight, each
\* stamped with the clock its sender had after sending it
C3_Witness ==
  \E m, n \in InFlight :
    /\ Len(m.elems) = 2 /\ m.elems[1].ts = 1 /\ m.elems[2].ts = 1
    /\ n.src = m.src /\ n.tag \in SingleTags /\ n.elems[1].ts = 2
    /\ lamportClock[m.src] = 2

\* entry e of a buffer matches the filter (sourceRank, tag) of a receive
Matches(e, sourceRank, tag) ==
  /\ sourceRank = any_source \/ e.status.source = sourceRank
  /\ e.status.tag = tag

\* what a typed receive of r with filter (sourceRank, tag) does to the buffer
FetchRule(r, sourceRank, tag) ==
  LET buf == messageBuffer[r]
      hits == {i \in DOMAIN buf : Matches(buf[i], sourceRank, tag)}
  IN  IF hits = {}
      THEN messageBuffer' = messageBuffer
      ELSE \E i \in hits :
             /\ \A j \in hits : i <= j
             /\ Len(messageBuffer'[r]) = Len(buf) - 1
             /\ \A j \in 1 .. (Len(buf) - 1) :
                  messageBuffer'[r][j] = IF j < i THEN buf[j] ELSE buf[j + 1]
             /\ \A q \in Ranks \ {r} : messageBuffer'[q] = messageBuffer[q]
             /\ delivered'[buf[i].wire.id].n = delivered[buf[i].wire.id].n + 1
             /\ delivered'[buf[i].wire.id].path = "buffer"
             /\ delivered'[buf[i].wire.id].message = <<buf[i].message>>
             /\ delivered'[buf[i].wire.id].status = buf[i].status

\* C4: a typed receive takes from the buffer the earliest entry, in
\* insertion order, whose source matches the filter (any_source matches
\* all) and whose tag is the one asked for; it removes that entry and no
\* other, the remaining entries keep their order; when no entry matches
\* the buffer is left as it was.
C4_FetchEarliestMatch ==
  [][\A r \in Ranks, sourceRank \in SourceFilters, tag \in SingleTags :
       receive(r, sourceRank, tag) => FetchRule(r, sourceRank, tag)]_vars

\* C4 witness: of three buffered messages the second one was fetched, the
\* first and the third are still there, in that order
C4_Witness ==
  /\ delivered[2].path = "buffer"
  /\ Len(messageBuffer[0]) = 2
  /\ messageBuffer[0][1].wire.id = 1 /\ messageBuffer[0][2].wire.id = 3
  /\ messageBuffer[0][1].status.tag = delivered[2].status.tag

\* C5: a typed receive gives its caller the same message and leaves the
\* same clock whether the message comes straight from the transport or
\* was put in the buffer by the dispatcher first: the message as sent, and
\* max(clock, its timestamp) + 1.
C5_BufferTransparent ==
  [][\A id \in DeliveredNow :
       delivered'[id].path \in {"buffer", "transport"} =>
         LET w == WireOf(id)
             r == delivered'[id].rank
         IN  /\ r = w.dst
             /\ delivered'[id].message = w.elems
             /\ delivered'[id].status = [source |-> w.src, tag |-> w.tag]
             /\ lamportClock'[r] = max(lamportClock[r], w.elems[1].ts) + 1]_vars

\* C5 witness: one rank got a message from the buffer and one from the
\* transport; the buffered one was stamped 2 and pushed the clock to 3
C5_Witness ==
  \E i, j \in Ids :
    /\ delivered[i].path = "buffer" /\ delivered[j].path = "transport"
    /\ delivered[i].rank = delivered[j].rank
    /\ delivered[i].message[1].ts = 2 /\ lamportClock[delivered[i].rank] = 3

\* the message the probe of a receiveVector of r can report from source s
Probed(r, s, tag) ==
  LET q == transport[<<s, r>>]
  IN  q[CHOOSE i \in DOMAIN q : q[i].tag = tag /\ \A j \in 1 .. (i - 1) : q[j].tag # tag]

\* C6: when the probed message holds no element, or no whole number of
\* elements of the receiver's type, receiveVector ends the process and
\* nothing else changes: the message stays in the transport, the clock,
\* the buffer and the destination vector are as before; otherwise the
\* process goes on and the whole batch is delivered.
C6_FatalProbe ==
  [][\A r \in Ranks, z \in ElemSizes, v \in DestVectors, sourceRank \in SourceFilters,
        tag \in VectorTags :
       receiveVector(r, z, v, sourceRank, tag) =>
         \E s \in Ranks :
           /\ sourceRank \in {any_source, s}
           /\ \E i \in DOMAIN transport[<<s, r>>] : transport[<<s, r>>][i].tag = tag
           /\ LET m == Probed(r, s, tag)
                  n == Len(m.elems)
              IN  IF n = 0 \/ n % z # 0
                  THEN /\ call'[r].op = "exited"
                       /\ call'[r].message = v
                       /\ UNCHANGED <<transport, lamportClock, messageBuffer, delivered>>
                  ELSE /\ call'[r] = call[r]
                       /\ m \notin InFlight'
                       /\ delivered'[m.id].n = delivered[m.id].n + 1
                       /\ Len(delivered'[m.id].message) = n \div z]_vars

\* C6 witness: one rank ended on an empty batch and one on a batch that
\* holds no whole number of its elements; both messages are still in flight
C6_Witness ==
  \E r, q \in Ranks :
    /\ call[r].op = "exited" /\ call[r].count = 0
    /\ call[q].op = "exited" /\ call[q].count = undefined
    /\ call[q].message = <<DefaultMessage>>
    /\ Cardinality(InFlight) = 2

\* the entries of scope other than rank, in the order of scope
Others(scope, rank) == SelectSeq(scope, LAMBDA x : x # rank)

\* the messages of a step, in the order they were handed to the transport
HandedTo(d) == {m \in HandedOver : m.dst = d}

\* what a broadcast or broadcastVector of r does
BroadcastRule(r) ==
  LET to == Others(broadcastScope[r], r)
  IN  /\ lamportClock'[r] = lamportClock[r] + 1
      /\ \A q \in Ranks \ {r} : lamportClock'[q] = lamportClock[q]
      /\ Cardinality(HandedOver) = Len(to)
      /\ \A k \in 1 .. Len(to) :
           \E m \in HandedOver : m.id = nextId + k - 1 /\ m.src = r /\ m.dst = to[k]
      /\ \A m \in HandedOver : m.dst # r
      /\ \A c \in Ranks \X Ranks :
           /\ Len(transport'[c]) = Len(transport[c]) +
                (IF c[1] = r THEN Cardinality(HandedTo(c[2])) ELSE 0)
           /\ \A i \in DOMAIN transport[c] : transport'[c][i] = transport[c][i]
           /\ \A i, j \in DOMAIN transport'[c] : i < j => transport'[c][i].id < transport'[c][j].id

\* C7: broadcast and broadcastVector of rank r hand one message to the
\* transport for each entry of r's broadcast scope that is not r, in the
\* order of the scope, and none to r itself; the clock of r goes up by
\* exactly 1, also when the scope is empty or holds only r.
C7_BroadcastRecipients ==
  [][\A r \in Ranks :
       (\/ \E tag \in SingleTags : broadcast(r, InputMessage(MaxClock, nextId), tag)
        \/ \E tag \in VectorTags :
             broadcastVector(r, InputBatch(MaxClock, nextId, MaxBatch), tag))
       => BroadcastRule(r)]_vars

\* C7 witness: rank 0 broadcast to the scope <<1, 0, 2>>: one message to
\* 1, then one to 2, none to 0, clock 1; rank 1 broadcast with an empty
\* scope: clock 1 and no message
C7_Witness ==
  /\ broadcastScope[0] = <<1, 0, 2>> /\ lamportClock[0] = 1
  /\ transport[<<0, 1>>] # <<>> /\ transport[<<0, 2>>] # <<>>
  /\ transport[<<0, 1>>][1].id + 1 = transport[<<0, 2>>][1].id
  /\ transport[<<0, 0>>] = <<>>
  /\ broadcastScope[1] = <<>> /\ lamportClock[1] = 1
  /\ Cardinality(InFlight) = 2

\* what the dispatcher of r with handlers for the tags h does with the
\* message it takes
Routed(r, h) ==
  \E m \in InFlight :
    /\ m.dst = r
    /\ InFlight' = InFlight \ {m}
    /\ IF m.tag \in h
       THEN /\ delivered' = [delivered EXCEPT ![m.id] =
                 [n |-> 1, path |-> "handler", rank |-> r, message |-> m.elems,
                  status |-> [source |-> m.src, tag |-> m.tag]]]
            /\ messageBuffer' = messageBuffer
       ELSE /\ delivered' = delivered
            /\ lamportClock' = lamportClock
            /\ messageBuffer' = [messageBuffer EXCEPT ![r] =
                 Append(@, [message |-> m.elems[1], wire |-> m,
                            status |-> [source |-> m.src, tag |-> m.tag]])]

\* what a typed receive of r gives when the buffer holds an entry for it
Retrieved(r, sourceRank, tag) ==
  (\E i \in DOMAIN messageBuffer[r] : Matches(messageBuffer[r][i], sourceRank, tag)) =>
    \E i \in DOMAIN messageBuffer[r] :
      LET e == messageBuffer[r][i]
      IN  /\ Matches(e, sourceRank, tag)
          /\ delivered'[e.wire.id] =
               [n |-> 1, path |-> "buffer", rank |-> r, message |-> e.wire.elems,
                status |-> [source |-> e.wire.src, tag |-> e.wire.tag]]
          /\ transport' = transport

\* C8: the dispatcher gives a message whose tag has a handler to that
\* handler exactly once and leaves the buffer alone; it appends a message
\* whose tag has no handler to the buffer, with its source and tag, and
\* gives it to nobody; a later typed receive for that source and tag gets
\* the message out of the buffer as it was sent.
C8_DispatchRouting ==
  [][/\ \A r \in Ranks, sourceRank \in SourceFilters, h \in SUBSET SingleTags :
          receiveMultiTag(r, sourceRank, h) => Routed(r, h)
     /\ \A r \in Ranks, sourceRank \in SourceFilters, tag \in SingleTags :
          receive(r, sourceRank, tag) => Retrieved(r, sourceRank, tag)]_vars

\* C8 witness: one message went to a handler, another went to the buffer
\* and then to a typed receive
C8_Witness ==
  \E i, j \in Ids :
    /\ delivered[i].path = "handler" /\ delivered[i].n = 1
    /\ delivered[j].path = "buffer" /\ delivered[j].n = 1
    /\ delivered[i].rank = delivered[j].rank
    /\ \A r \in Ranks : messageBuffer[r] = <<>>

\* the number of places message id is in
InFlightCount(id) ==
  Cardinality({p \in (Ranks \X Ranks) \X (1 .. MaxIds) :
                 p[2] \in DOMAIN transport[p[1]] /\ transport[p[1]][p[2]].id = id})
BufferedCount(id) ==
  Cardinality({p \in Ranks \X (1 .. MaxIds) :
                 p[2] \in DOMAIN messageBuffer[p[1]] /\ messageBuffer[p[1]][p[2]].wire.id = id})

\* C9: every message copy handed to the transport is in exactly one
\* place: in flight to its recipient, in the buffer of its recipient, or
\* delivered once to its recipient; it is never lost and never duplicated.
C9_ExactlyOnePlace ==
  /\ \A id \in Ids :
       InFlightCount(id) + BufferedCount(id) + delivered[id].n =
         (IF id < nextId THEN 1 ELSE 0)
  /\ \A c \in Ranks \X Ranks : \A i \in DOMAIN transport[c] :
       transport[c][i].src = c[1] /\ transport[c][i].dst = c[2]
  /\ \A r \in Ranks : \A i \in DOMAIN messageBuffer[r] : messageBuffer[r][i].wire.dst = r
  /\ \A id \in Ids : delivered[id].n = 1 => delivered[id].rank \in Ranks

\* C9 witness: of two messages broadcast by one rank, one was given to a
\* handler and one is in a buffer
C9_Witness ==
  /\ nextId = 3
  /\ delivered[1].path = "handler" /\ delivered[1].status.source = 2
  /\ BufferedCount(2) = 1 /\ InFlightCount(2) = 0

\* C10: a step that hands a batch to the transport (sendVector,
\* broadcastVector) raises the clock of the sender by exactly 1 whatever
\* the size of the batch, and every element of the batch carries the same
\* timestamp, the clock after that increment; the payloads are those given.
C10_VectorStamp ==
  [][\A m \in HandedOver :
       m.tag \in VectorTags =>
         LET n == Len(m.elems)
         IN  /\ lamportClock'[m.src] = lamportClock[m.src] + 1
             /\ n \in 0 .. MaxBatch
             /\ \A i, j \in 1 .. n : m.elems[i].ts = m.elems[j].ts
             /\ \A i \in 1 .. n :
                  /\ m.elems[i].ts = lamportClock'[m.src]
                  /\ m.elems[i].val = InputBatch(0, nextId, n)[i].val]_vars

\* C10 witness: a batch of two is
\* in flight, both elements stamped 1, and the sender's clock is 1
C10_Witness ==
  \E m \in InFlight :
    /\ Len(m.elems) = 2 /\ m.tag \in VectorTags
    /\ m.elems[1].ts = 1 /\ m.elems[2].ts = 1
    /\ lamportClock[m.src] = 1 /\ m.sclk = 1

\* what a typed receive of r with filter (sourceRank, tag) takes, and from
\* where
BufferFirst(r, sourceRank, tag) ==
  LET buf == messageBuffer[r]
      hits == {i \in DOMAIN buf : Matches(buf[i], sourceRank, tag)}
  IN  IF hits # {}
      THEN /\ transport' = transport
           /\ Len(messageBuffer'[r]) = Len(buf) - 1
           /\ \E i \in hits :
                /\ DeliveredNow = {buf[i].wire.id}
                /\ delivered'[buf[i].wire.id].path = "buffer"
                /\ buf[i].wire \notin Buffered'
      ELSE /\ messageBuffer' = messageBuffer
           /\ \E m \in InFlight :
                /\ m.dst = r /\ m.tag = tag /\ sourceRank \in {any_source, m.src}
                /\ InFlight' = InFlight \ {m}
                /\ DeliveredNow = {m.id}
                /\ delivered'[m.id].path = "transport"

\* C11: a typed receive (receive, receiveAny) looks in the buffer before
\* the transport: when the buffer holds an entry matching the source
\* filter and the tag, the call returns that entry, removes it, and takes
\* nothing from the transport, also when a matching message is in flight;
\* only when the buffer holds no match does it take one message from the
\* transport, and then the buffer is left as it was.
C11_BufferBeforeTransport ==
  [][\A r \in Ranks, sourceRank \in SourceFilters, tag \in SingleTags :
       receive(r, sourceRank, tag) => BufferFirst(r, sourceRank, tag)]_vars

\* C11 witness: a message came out of the buffer of rank 0, and a later
\* message of the same source and tag is in flight to rank 0
C11_Witness ==
  \E i \in Ids : \E m \in InFlight :
    /\ delivered[i].path = "buffer" /\ delivered[i].rank = 0
    /\ m.dst = 0 /\ m.src = delivered[i].status.source /\ m.tag = delivered[i].status.tag
    /\ m.id > i /\ m.sclk < lamportClock[0]

\* C12: the status a typed receive returns names the rank that sent the
\* message and the tag it was sent with, on the transport path and on the
\* buffer path; a receive with the wildcard source reports the rank of the
\* sender, never the wildcard.
C12_StatusNamesSender ==
  [][\A id \in DeliveredNow :
       delivered'[id].path \in {"buffer", "transport"} =>
         /\ delivered'[id].status.source = WireOf(id).src
         /\ delivered'[id].status.tag = WireOf(id).tag
         /\ delivered'[id].status.source \in Ranks \ {delivered'[id].rank}
         /\ delivered'[id].status.tag \in SingleTags
         /\ \A tag \in SingleTags :
              receiveAny(delivered'[id].rank, tag) => delivered'[id].status.tag = tag]_vars

\* C12 witness: rank 0 got a message of rank 2 from the buffer and a
\* message of rank 1 from the transport, the status of each names its sender
C12_Witness ==
  \E i, j \in Ids :
    /\ delivered[i].path = "buffer" /\ delivered[i].status.source = 2
    /\ delivered[j].path = "transport" /\ delivered[j].status.source = 1
    /\ delivered[i].rank = 0 /\ delivered[j].rank = 0

\* C13: a message causes exactly one clock update at its recipient: the
\* step in which the dispatcher puts a message in the buffer changes no
\* clock and delivers nothing, a buffered message has not been delivered
\* yet, and the step that delivers a message (to a handler, or to the
\* typed receive that fetches it) delivers it for the first and only
\* time and sets the clock to max(clock, timestamp) + 1.
C13_OneObservePerMessage ==
  [][/\ \A w \in Buffered : delivered[w.id].n = 0
     /\ \A w \in Buffered' \ Buffered :
          /\ w \in InFlight
          /\ lamportClock' = lamportClock
          /\ delivered' = delivered
     /\ \A id \in DeliveredNow :
          LET r == delivered'[id].rank
          IN  /\ delivered[id].n = 0 /\ delivered'[id].n = 1
              /\ DeliveredNow = {id}
              /\ lamportClock'[r] = max(lamportClock[r], WireOf(id).elems[1].ts) + 1
              /\ \A q \in Ranks \ {r} : lamportClock'[q] = lamportClock[q]]_vars

\* C13 witness: the dispatcher of rank 0 put two messages in the buffer,
\* a typed receive fetched one of them, stamped 1, and the clock of rank 0
\* is 2: one update
C13_Witness ==
  \E i \in Ids :
    /\ delivered[i].path = "buffer" /\ delivered[i].rank = 0
    /\ delivered[i].message[1].ts = 1 /\ lamportClock[0] = 2
    /\ messageBuffer[0] # <<>>
    /\ InFlight = {} /\ nextId = 3

\* C14: receiveVector and receiveVectorAny update the clock once for the
\* whole batch, to max(clock, timestamp of the first element) + 1, and
\* the destination holds the elements of the batch, as many as the probe
\* counted.
C14_VectorObserve ==
  [][\A id \in DeliveredNow :
       delivered'[id].path = "vector" =>
         LET w == WireOf(id)
             r == delivered'[id].rank
         IN  /\ w.tag \in VectorTags /\ w.dst = r
             /\ lamportClock'[r] = max(lamportClock[r], w.elems[1].ts) + 1
             /\ Len(delivered'[id].message) = Len(w.elems)
             /\ Len(delivered'[id].message) \in 1 .. MaxBatch
             /\ delivered'[id].message = w.elems
             /\ delivered'[id].n = 1]_vars

\* C14 witness: a batch of two stamped 1 was received by a rank whose
\* clock was 2 and is 3 now
C14_Witness ==
  \E i \in Ids :
    /\ delivered[i].path = "vector" /\ Len(delivered[i].message) = 2
    /\ delivered[i].message[1].ts = 1 /\ delivered[i].message[2].ts = 1
    /\ lamportClock[delivered[i].rank] = 3

\* the messages in flight that a call of r for (sourceRank, tag) can take
Arrived(r, sourceRank, tag) ==
  {m \in InFlight : m.dst = r /\ m.tag = tag /\ sourceRank \in {any_source, m.src}}

\* the buffer entries of r that a call of r for (sourceRank, tag) can take
Held(r, sourceRank, tag) ==
  {i \in DOMAIN messageBuffer[r] : Matches(messageBuffer[r][i], sourceRank, tag)}

\* C15: a receiveVector (receiveVectorAny) called while no message for
\* its source filter and tag is in flight waits: the caller stays in the
\* call, the process does not end and its clock does not move until such a
\* message has arrived; the process never ends in the call without one.
C15_VectorReceiveWaits ==
  [][\A r \in Ranks :
       pending[r].op = "receiveVector" =>
         LET c == pending[r]
             none == Arrived(r, c.source, c.tag) = {}
         IN  /\ none => /\ pending'[r] = c
                        /\ call'[r] = call[r] /\ call'[r].op = "idle"
                        /\ lamportClock'[r] = lamportClock[r]
             /\ pending'[r] # c => ~none
             /\ call'[r].op = "exited" => ~none]_vars

\* C15 witness: rank 0 waits in a receiveVector for rank 1 while the only
\* messages in flight to it are a batch of rank 2 and a single message of
\* rank 1; it has not ended
C15_Witness ==
  /\ pending[0].op = "receiveVector" /\ pending[0].source = 1
  /\ Arrived(0, 1, pending[0].tag) = {}
  /\ \E m, n \in InFlight : /\ m.src = 2 /\ m.tag \in VectorTags /\ m.dst = 0
                            /\ n.src = 1 /\ n.tag \in SingleTags /\ n.dst = 0
  /\ call[0].op = "idle"

\* C16: a receive (receiveAny) returns only with a message for its source
\* filter and tag, taken from the buffer or the transport; while there is
\* none the caller stays in the call, and as long as it is in the call the
\* clock and the buffer of its process do not change and the process does
\* not end.
C16_ReceiveWaits ==
  [][\A r \in Ranks :
       pending[r].op = "receive" =>
         LET c == pending[r]
             none == Arrived(r, c.source, c.tag) = {} /\ Held(r, c.source, c.tag) = {}
         IN  /\ none => pending'[r] = c
             /\ pending'[r] = c =>
                  /\ lamportClock'[r] = lamportClock[r]
                  /\ messageBuffer'[r] = messageBuffer[r]
                  /\ {id \in DeliveredNow : delivered'[id].rank = r} = {}
             /\ pending'[r] # c =>
                  /\ pending'[r] = NoCall
                  /\ \E id \in DeliveredNow :
                       /\ delivered'[id].rank = r
                       /\ WireOf(id).dst = r /\ WireOf(id).tag = c.tag
                       /\ c.source \in {any_source, WireOf(id).src}
                       /\ WireOf(id) \notin InFlight' \cup Buffered'
             /\ call'[r] = call[r] /\ call'[r].op = "idle"]_vars

\* C16 witness: rank 0 waits in a receive for tag 1 of rank 1 while a
\* message of rank 2 is in flight to it and a message of rank 1 with tag 2
\* is in its buffer
C16_Witness ==
  /\ pending[0] = ReceiveCall(1, 1)
  /\ Arrived(0, 1, 1) = {} /\ Held(0, 1, 1) = {}
  /\ \E m \in InFlight : m.dst = 0 /\ m.src = 2
  /\ Len(messageBuffer[0]) = 1
  /\ messageBuffer[0][1].status = [source |-> 1, tag |-> 2]

\* the counts a probe of message m can report
Counts(m) == {IF Len(m.elems) % z = 0 THEN Len(m.elems) \div z ELSE undefined : z \in ElemSizes}

\* C18: a process ends only in a receiveVector (receiveVectorAny) whose
\* probe counted no element or no whole number of elements: a step that
\* ends a process finds a batch in flight to it with such a count, and
\* hands over, delivers and buffers nothing; a step that hands messages to
\* the transport (send, broadcast, sendVector, broadcastVector), delivers
\* one (receive, receiveAny, handler), buffers one (dispatcher, tag without
\* a handler) or moves a clock ends no process.
C18_OnlyFatalProbeEnds ==
  [][/\ \A r \in Ranks :
          call'[r] # call[r] =>
            /\ call[r].op = "idle" /\ call'[r].op = "exited"
            /\ call'[r].count \in {undefined, 0}
            /\ \E m \in InFlight :
                 /\ m.dst = r /\ m.tag \in VectorTags
                 /\ call'[r].count \in Counts(m)
            /\ HandedOver = {} /\ DeliveredNow = {} /\ Buffered' = Buffered
     /\ (\/ HandedOver # {}
         \/ DeliveredNow # {}
         \/ Buffered' # Buffered
         \/ lamportClock' # lamportClock) => call' = call]_vars

\* C18 witness: rank 0 ended on a batch; rank 1, whose dispatcher put a
\* message without a handler in the buffer, runs
C18_Witness ==
  /\ call[0].op = "exited" /\ call[1].op = "idle"
  /\ messageBuffer[1] # <<>>
  /\ \E m \in InFlight : m.dst = 0 /\ m.tag \in VectorTags

\* the next batch with tag in the channel from s to r is empty
EmptyNext(r, s, tag) ==
  /\ \E i \in DOMAIN transport[<<s, r>>] : transport[<<s, r>>][i].tag = tag
  /\ Probed(r, s, tag).elems = <<>>

\* C20: sendVector and broadcastVector take an empty batch: the clock of
\* the sender goes up by 1 and a message without elements goes to the
\* recipient, or to each rank of the scope but the sender; a receiveVector
\* or receiveVectorAny that matches such a message ends the process, the
\* message is never delivered and stays in flight.
C20_EmptyBatch ==
  [][/\ \A r \in Ranks, tag \in VectorTags :
          /\ \A d \in Ranks :
               sendVector(r, <<>>, d, tag) =>
                 /\ lamportClock'[r] = lamportClock[r] + 1
                 /\ HandedOver = {[id |-> nextId, src |-> r, dst |-> d, tag |-> tag,
                                   elems |-> <<>>, sclk |-> lamportClock'[r]]}
          /\ broadcastVector(r, <<>>, tag) =>
               /\ lamportClock'[r] = lamportClock[r] + 1
               /\ Cardinality(HandedOver) = Len(Others(broadcastScope[r], r))
               /\ \A m \in HandedOver : m.elems = <<>> /\ m.src = r /\ m.tag = tag
     /\ \A r \in Ranks, s \in Ranks, tag \in VectorTags :
          EmptyNext(r, s, tag) =>
            \A z \in ElemSizes, v \in DestVectors :
              /\ receiveVector(r, z, v, s, tag) =>
                   call'[r].op = "exited" /\ call'[r].count = 0
              /\ ((\A q \in Ranks \ {s} : Arrived(r, q, tag) = {})
                  /\ receiveVectorAny(r, z, v, tag)) =>
                   call'[r].op = "exited" /\ call'[r].count = 0
     /\ \A m \in InFlight : m.elems = <<>> => m \in InFlight'
     /\ \A id \in DeliveredNow : delivered'[id].message # <<>>]_vars

\* C20 witness: a message without elements, sent at clock 1, is in flight
\* to a rank that ended on it with a count of 0
C20_Witness ==
  \E m \in InFlight :
    /\ m.tag \in VectorTags /\ m.elems = <<>> /\ m.sclk = 1
    /\ lamportClock[m.src] = 1
    /\ call[m.dst].op = "exited" /\ call[m.dst].count = 0

\* an earlier message of the channel (source, destination, tag) of message
\* id that the destination has not obtained yet: it is still in flight or
\* sits in the buffer
EarlierWaiting(id) ==
  {w \in InFlight \cup Buffered :
     /\ w.id < id
     /\ w.src = WireOf(id).src /\ w.dst = WireOf(id).dst
     /\ w.tag = WireOf(id).tag}

\* C19: per-channel FIFO survives buffering: for every source S and tag T
\* the messages a process obtains for (S, T) through receive, receiveAny
\* and handler deliveries are obtained in the order S sent them, under any
\* interleaving of dispatcher calls and typed receives; whenever a message
\* is given to the caller or to a handler, no earlier message of the same
\* source, destination and tag is still waiting in flight or in the buffer.
C19_FifoSurvivesBuffering ==
  [][\A id \in DeliveredNow : EarlierWaiting(id) = {}]_vars

\* vector time a is below vector time b: the event at a happens before
\* the event at b
Before(a, b) == a # b /\ \A q \in Ranks : a[q] <= b[q]

\* C17: the Lamport clock condition across processes: for any two events
\* A and B (local advances, sends, broadcasts, receives, handler
\* deliveries) such that A happens before B through a chain of program
\* order and send-to-receive links, the clock value at A is strictly less
\* than the clock value at B.  The converse fails: the witness is a state
\* with causally unrelated events of increasing clocks and with events of
\* equal clocks at different processes.
C17_ClockCondition ==
  \A A, B \in history.log : Before(A.at, B.at) => A.clock < B.clock

\* C17 witness: an event of rank 1 happens before a later event of rank 0
\* through program order at rank 1, the send of a message that waited in
\* the buffer of rank 0, and its receive; two events that are not ordered
\* have increasing clocks; two events of different ranks have the same
\* clock
C17_Witness ==
  /\ \E A, B \in history.log :
       /\ A.rank = 1 /\ B.rank = 0 /\ Before(A.at, B.at)
       /\ A.at[1] = 1 /\ B.at[1] >= 2 /\ B.at[0] >= 2
  /\ \E id \in Ids : delivered[id].path = "buffer" /\ delivered[id].rank = 0
  /\ \E A, B \in history.log :
       /\ ~Before(A.at, B.at) /\ ~Before(B.at, A.at)
       /\ A.clock < B.clock
  /\ \E A, B \in history.log : A.rank # B.rank /\ A.clock = B.clock

=============================================================================
